---- MODULE Spec2Model ----
(***************************************************************************)
(* Model of the speech-generation pipeline of openai-xunjie-tts:           *)
(*   app/tts_handler.py            parse_voice_string, _delayed_cleanup,   *)
(*                                 _save_audio_file, _generate_audio,      *)
(*                                 generate_speech                         *)
(*   app/xunjie_tts/xunjie_client.py   XunjieClient.save                   *)
(* Strings are tuples of one-character strings.  Python's None is the      *)
(* empty tuple, an integer n that is present is the tuple <<n>>.           *)
(***************************************************************************)
EXTENDS Integers, Sequences, FiniteSets, TLC

\* ------------------------------------------------------------------ bounds
\* longest voice string the parser specification enumerates
MaxLen == 7

\* characters of the enumerated voice strings: a letter, two digits, the
\* separator and one character outside every class of the pattern
Alphabet == {"s", "0", "1", "-", "+"}

\* ----------------------------------------------------- parse_voice_string
None == <<>>

\* [a-zA-Z0-9_] and \d of the pattern at tts_handler.py:68
NameClass == {"s", "a", "_", "0", "1", "2", "3", "4", "5", "6", "7", "8", "9"}
DigitClass == {"0", "1", "2", "3", "4", "5", "6", "7", "8", "9"}

DigitVal(c) ==
  CASE c = "0" -> 0 [] c = "1" -> 1 [] c = "2" -> 2 [] c = "3" -> 3
    [] c = "4" -> 4 [] c = "5" -> 5 [] c = "6" -> 6 [] c = "7" -> 7
    [] c = "8" -> 8 [] c = "9" -> 9

\* int(digits): the decimal value of a non-empty digit string
RECURSIVE int(_)
int(ds) ==
  IF Len(ds) = 0 THEN 0
  ELSE 10 * int(SubSeq(ds, 1, Len(ds) - 1)) + DigitVal(ds[Len(ds)])

\* greedy  cls+ / cls*  : number of consecutive characters of s in cls from i
RECURSIVE SpanLen(_, _, _)
SpanLen(s, i, cls) ==
  IF i <= Len(s) /\ s[i] \in cls THEN 1 + SpanLen(s, i + 1, cls) ELSE 0

\* one optional group (?:[-](\d+))? tried at position i: the captured digits
\* (None when the group does not take part) and the position after it
OptGroup(s, i) ==
  LET d == IF i <= Len(s) /\ s[i] = "-" THEN SpanLen(s, i + 1, DigitClass) ELSE 0
  IN IF d > 0 THEN [grp |-> SubSeq(s, i + 1, i + d), nxt |-> i + 1 + d]
     ELSE [grp |-> None, nxt |-> i]

\* "if x_str: x = int(x_str); if not x <= 10: x = None"
MutBoundedLt(str) ==
  IF str = None THEN None
  ELSE IF ~(int(str) < 10) THEN None ELSE <<int(str)>>

Bounded(str) ==
  IF str = None THEN None
  ELSE IF ~(int(str) <= 10) THEN None ELSE <<int(str)>>

\* re.match anchors at the start only; the three groups are greedy and
\* nothing follows them, so the first greedy attempt is the match
parse_voice_string(voice_string) ==
  LET n  == SpanLen(voice_string, 1, NameClass)
      g2 == OptGroup(voice_string, n + 1)
      g3 == OptGroup(voice_string, g2.nxt)
      g4 == OptGroup(voice_string, g3.nxt)
  IN IF n = 0
     THEN <<voice_string, None, None>>
     ELSE <<SubSeq(voice_string, 1, n), Bounded(g2.grp), Bounded(g3.grp), Bounded(g4.grp)>>

\* --------------------------------------------------------------- pipeline
\* number of generate_speech calls, numbered in order of arrival
MaxReqs == 2
Reqs == 1..MaxReqs

\* timestamps datetime.now() can yield at tts_handler.py:123 (one per second)
MaxTime == 0
Timestamps == 0..MaxTime

\* voice strings of the requests: plain, with the persist flag, and one that
\* does not match the pattern
Voices == { <<"s">>, <<"s", "+", "s">>, <<"-", "1">> }
Texts == { <<>>, <<"h", "i">> }
Formats == {"mp3", "wav", "opus"}
Modes == {"direct", "worker"}

DEFAULT_SPEED == 4
DEFAULT_VOLUME == 5
DEFAULT_PITCH == 5

\* load_voice_mappings: voice_mappings.json is absent, the table is empty
voice_mapping == [v \in {} |-> v]

\* names tempfile.NamedTemporaryFile can hand out; two per request suffice
TmpNames == 1..(2 * MaxReqs)
Tmp(n) == <<"tmp", n>>
Paths == {Tmp(n) : n \in TmpNames}

PollLimit == 12
PollDelay == 5
CleanupRetries == 3
CleanupDelay == 30

VARIABLES
  pin,         \* parser specification: the voice string under test
  pout,        \* parser specification: <<>> before the call, then the returned tuple
  pc,          \* per request: where generate_speech stands
  req,         \* per request: the arguments voice, text and the calling context
  response_format, \* per request: the argument response_format ("" until line 200)
  save_output, \* per request: local save_output of _generate_audio
  client,      \* per request: <<the XunjieClient built at line 186>> (None before)
  temp,        \* per request: temp_output_file.name (None before line 181)
  conv,        \* per request: converted_output_file.name (None before line 211)
  polls,       \* per request: status polls issued by XunjieClient.save
  waited,      \* per request: time slept between polls
  gets,        \* per request: download GETs issued by XunjieClient.save
  exc,         \* per request: the exception _generate_audio raised ("none")
  retval,      \* per request: the value _generate_audio returned
  result,      \* per request: the value generate_speech returned
  TEMP_FILES,  \* the module-level registry
  disk,        \* content of every temporary path ("absent" when no file)
  outdir,      \* files under DEFAULT_OUTPUT_DIR
  ffruns,      \* per request: the encoder invocations, in order
  probes,      \* per request: runs of the capability probe "ffmpeg -version"
  stask,       \* per request: the _save_audio_file task
  ctask,       \* per request: the _delayed_cleanup task
  attempts,    \* per request: deletion attempts of the cleanup task that failed
  slept        \* per request: time the cleanup task has spent in asyncio.sleep

vars == <<pin, pout, pc, req, response_format, save_output, client, temp, conv, polls, waited,
          gets, exc, retval, result, TEMP_FILES, disk, outdir, ffruns, probes, stask,
          ctask, attempts, slept>>

parseVars == <<pin, pout>>
pipeVars == <<pc, req, response_format, save_output, client, temp, conv, polls, waited, gets,
              exc, retval, result, TEMP_FILES, disk, outdir, ffruns, probes, stask,
              ctask, attempts, slept>>

NoReq == [voice |-> <<>>, text |-> <<>>, mode |-> "direct"]
NoSave == [state |-> "none", path |-> None, converted |-> FALSE, ret |-> None]
NoCleanup == [state |-> "none", path |-> None, retries |-> 0, delay |-> 0]

InitPipe ==
  /\ pc = [r \in Reqs |-> "idle"]
  /\ req = [r \in Reqs |-> NoReq]
  /\ response_format = [r \in Reqs |-> ""]
  /\ save_output = [r \in Reqs |-> FALSE]
  /\ client = [r \in Reqs |-> None]
  /\ temp = [r \in Reqs |-> None]
  /\ conv = [r \in Reqs |-> None]
  /\ polls = [r \in Reqs |-> 0]
  /\ waited = [r \in Reqs |-> 0]
  /\ gets = [r \in Reqs |-> 0]
  /\ exc = [r \in Reqs |-> "none"]
  /\ retval = [r \in Reqs |-> None]
  /\ result = [r \in Reqs |-> None]
  /\ TEMP_FILES = {}
  /\ disk = [p \in Paths |-> "absent"]
  /\ outdir = {}
  /\ ffruns = [r \in Reqs |-> <<>>]
  /\ probes = [r \in Reqs |-> 0]
  /\ stask = [r \in Reqs |-> NoSave]
  /\ ctask = [r \in Reqs |-> NoCleanup]
  /\ attempts = [r \in Reqs |-> 0]
  /\ slept = [r \in Reqs |-> 0]

\* ------------------------------------------------- _generate_audio, part 1
endswith(s, suffix) ==
  /\ Len(s) >= Len(suffix)
  /\ SubSeq(s, Len(s) - Len(suffix) + 1, Len(s)) = suffix

\* voice_mapping.get(voice, voice)
MapVoice(voice) == IF voice \in DOMAIN voice_mapping THEN voice_mapping[voice] ELSE voice

\* a request is inside loop.run_until_complete / asyncio.run
InFlight == {"post", "poll", "sleep", "get", "ret"}

\* the calling thread's own loop is being driven by a run_until_complete
L0Busy == \E q \in Reqs : req[q].mode = "direct" /\ pc[q] \in InFlight

\* names NamedTemporaryFile may return: any name with no file behind it.
\* Names never handed out are interchangeable, so only the least is offered.
UsedNames == {n \in TmpNames : \E q \in Reqs : Tmp(n) \in {temp[q], conv[q]}}
MutFreeNamesAny(dk) == TmpNames

FreeNames(dk) ==
  {n \in TmpNames : /\ dk[Tmp(n)] = "absent"
                    /\ \/ n \in UsedNames
                       \/ \A m \in TmpNames \ UsedNames : n <= m}

\* range(retries) at line 106: after `failed` failed iterations another one
\* follows
MutOneMoreAttempt(failed, retries) == failed <= retries

MoreAttempts(failed, retries) == failed < retries

\* the first step of a _delayed_cleanup task: it enters the loop and suspends
\* in asyncio.sleep(delay), or with retries = 0 falls through to line 115
cleanup_begin(t) ==
  [t EXCEPT !.state = IF MoreAttempts(0, t.retries) THEN "sleeping" ELSE "exhausted"]

\* "if x is None: x = default" at lines 171-178
OrDefault(x, default) == IF x = None THEN default ELSE x[1]

\* generate_speech is called; _generate_audio runs up to its first
\* suspension, the initiate POST inside XunjieClient.save.  The argument
\* response_format enters the state at line 200, the first statement that
\* depends on it.
Call(r) ==
  /\ pc[r] = "idle"
  /\ \E voice \in Voices, text \in Texts, mode \in Modes :
       /\ mode = "direct" => ~L0Busy
       /\ req' = [req EXCEPT ![r] = [voice |-> voice, text |-> text, mode |-> mode]]
       \* tasks left on the thread's loop take their first step before
       \* the new coroutine does: each reaches its asyncio.sleep(delay)
       /\ ctask' = IF mode = "direct"
                   THEN [q \in Reqs |->
                          IF ctask[q].state = "pending" /\ req[q].mode = "direct"
                          THEN cleanup_begin(ctask[q])
                          ELSE ctask[q]]
                   ELSE ctask
       /\ LET so == endswith(voice, <<"+", "s">>)
              v == IF so THEN SubSeq(voice, 1, Len(voice) - 2) ELSE voice
              parsed == parse_voice_string(MapVoice(v))
          IN /\ save_output' = [save_output EXCEPT ![r] = so]
             /\ IF Len(parsed) # 4
                THEN \* line 169 unpacks four names from a 3-tuple: ValueError
                     /\ exc' = [exc EXCEPT ![r] = "unpack"]
                     /\ pc' = [pc EXCEPT ![r] = "ret"]
                     /\ UNCHANGED <<client, temp, TEMP_FILES, disk>>
                ELSE \E n \in FreeNames(disk) :
                     /\ temp' = [temp EXCEPT ![r] = Tmp(n)]
                     /\ disk' = [disk EXCEPT ![Tmp(n)] = "empty"]
                     /\ client' = [client EXCEPT ![r] =
                                     <<[voice |-> parsed[1],
                                        rate |-> OrDefault(parsed[2], DEFAULT_SPEED),
                                        pitch |-> OrDefault(parsed[3], DEFAULT_PITCH),
                                        volume |-> OrDefault(parsed[4], DEFAULT_VOLUME)]>>]
                     /\ IF text = <<>>
                        THEN \* save raises ValueError at line 77; handler at 250
                             /\ exc' = [exc EXCEPT ![r] = "empty_text"]
                             /\ TEMP_FILES' = (TEMP_FILES \cup {Tmp(n)}) \ {Tmp(n)}
                             /\ pc' = [pc EXCEPT ![r] = "ret"]
                        ELSE /\ exc' = exc
                             /\ TEMP_FILES' = TEMP_FILES \cup {Tmp(n)}
                             /\ pc' = [pc EXCEPT ![r] = "post"]
  /\ UNCHANGED <<response_format, conv, polls, waited, gets, retval, result, outdir,
                 ffruns, probes, stask, attempts, slept>>
  /\ UNCHANGED parseVars

\* Calls of one caller follow one another: generate_speech blocks its caller
\* until it returns (the handler of server.py is synchronous, the worker
\* path waits on future.result()).
Start(r) ==
  /\ \A q \in Reqs : q < r => pc[q] = "done"
  /\ Call(r)

\* ------------------------------------------------------ XunjieClient.save
InitiateResponses ==
  [status : {200, 500}, code : {"int0", "str2105", "other"},
   task_id : BOOLEAN, is_complete : BOOLEAN, file_link : BOOLEAN]
PollResponses ==
  [status : {200, 500}, code : {"int0", "other"},
   is_complete : BOOLEAN, file_link : BOOLEAN]
DownloadStatuses == {200, 404}

\* an exception leaves save and reaches the handler at lines 250-254
Raise(r, kind) ==
  /\ exc' = [exc EXCEPT ![r] = kind]
  /\ TEMP_FILES' = TEMP_FILES \ {temp[r]}
  /\ pc' = [pc EXCEPT ![r] = "ret"]

\* frame of the three response handlers below
SaveFrame ==
  /\ UNCHANGED <<req, response_format, save_output, client, temp, conv, waited,
                 retval, result, disk, outdir, ffruns, probes, stask, ctask, attempts,
                 slept>>
  /\ UNCHANGED parseVars

\* a request of save fails below HTTP (connection error, receive_timeout,
\* undecodable body): aiohttp raises
NetworkError(r) ==
  /\ pc[r] \in {"post", "poll", "get"}
  /\ Raise(r, "network")
  /\ UNCHANGED <<polls, gets>>
  /\ SaveFrame

\* the test at line 115 that starts the polling loop
MutDeferredWithoutTask(resp) == resp.code = "str2105"

Deferred(resp) == resp.code = "str2105" /\ resp.task_id

\* the initiate POST is answered with resp (lines 108-156, up to the next
\* request sent)
InitiateResponseWith(r, resp) ==
  /\ pc[r] = "post"
  /\ IF resp.status # 200
     THEN Raise(r, "status") /\ UNCHANGED <<polls, gets>>
     ELSE IF Deferred(resp)
     THEN /\ polls' = [polls EXCEPT ![r] = 1]
          /\ pc' = [pc EXCEPT ![r] = "poll"]
          /\ UNCHANGED <<exc, TEMP_FILES, gets>>
     ELSE IF resp.code # "int0"
     THEN Raise(r, "api_error") /\ UNCHANGED <<polls, gets>>
     ELSE IF ~resp.is_complete
     THEN Raise(r, "incomplete") /\ UNCHANGED <<polls, gets>>
     ELSE IF ~resp.file_link
     THEN Raise(r, "no_link") /\ UNCHANGED <<polls, gets>>
     ELSE /\ gets' = [gets EXCEPT ![r] = 1]
          /\ pc' = [pc EXCEPT ![r] = "get"]
          /\ UNCHANGED <<exc, TEMP_FILES, polls>>
  /\ SaveFrame

InitiateResponse(r) == \E resp \in InitiateResponses : InitiateResponseWith(r, resp)

\* the test at lines 136-141 that ends the polling loop
MutPollGoodNoLink(resp) == resp.code = "int0" /\ resp.is_complete

PollGood(resp) == resp.code = "int0" /\ resp.is_complete /\ resp.file_link

\* a status poll is answered with resp (lines 134-142)
PollResponseWith(r, resp) ==
  /\ pc[r] = "poll"
  /\ IF PollGood(resp)
     THEN /\ gets' = [gets EXCEPT ![r] = gets[r] + 1]
          /\ pc' = [pc EXCEPT ![r] = "get"]
          /\ UNCHANGED <<exc, TEMP_FILES, polls>>
     ELSE /\ pc' = [pc EXCEPT ![r] = "sleep"]
          /\ UNCHANGED <<exc, TEMP_FILES, polls, gets>>
  /\ SaveFrame

PollResponse(r) == \E resp \in PollResponses : PollResponseWith(r, resp)

\* asyncio.sleep(5) at line 142 returns: the next poll, or the for-else
PollSleepDone(r) ==
  /\ pc[r] = "sleep"
  /\ waited' = [waited EXCEPT ![r] = waited[r] + PollDelay]
  /\ IF polls[r] < PollLimit
     THEN /\ polls' = [polls EXCEPT ![r] = polls[r] + 1]
          /\ pc' = [pc EXCEPT ![r] = "poll"]
          /\ UNCHANGED <<exc, TEMP_FILES>>
     ELSE /\ Raise(r, "timeout")
          /\ UNCHANGED polls
  /\ UNCHANGED <<req, response_format, save_output, client, temp, conv, gets, retval, result,
                 disk, outdir, ffruns, probes, stask, ctask, attempts, slept>>
  /\ UNCHANGED parseVars

\* ------------------------------------------------- _generate_audio, part 2
Codec(fmt) ==
  CASE fmt = "aac" -> "aac" [] fmt = "mp3" -> "libmp3lame"
    [] fmt = "wav" -> "pcm_s16le" [] fmt = "opus" -> "libopus"
    [] fmt = "flac" -> "flac" [] OTHER -> "aac"

Container(fmt) ==
  CASE fmt = "aac" -> "mp4" [] fmt = "mp3" -> "mp3" [] fmt = "wav" -> "wav"
    [] fmt = "opus" -> "ogg" [] fmt = "flac" -> "flac" [] OTHER -> fmt

\* the list built at lines 214-234: "-i" input "-c:a" codec "-b:a" bitrate
\* "-f" container "-y" output.  b_a tells that the "-b:a" element is in the
\* list; the element after it is <<"192k">> or None
ffmpeg_command(src, fmt, dst) ==
  [input |-> src, codec |-> Codec(fmt),
   b_a |-> TRUE, bitrate |-> IF fmt # "wav" THEN <<"192k">> ELSE None,
   container |-> Container(fmt), overwrite |-> TRUE, output |-> dst]

\* ' '.join(cmd) at line 237 and subprocess.run at 238 need every element
\* to be a str; a None element raises TypeError
ArgvOk(cmd) == ~(cmd.b_a /\ cmd.bitrate = None)

\* "return <path>" at lines 201-205 and 244-248
Return(r, path, converted) ==
  /\ retval' = [retval EXCEPT ![r] = path]
  /\ stask' = IF save_output[r]
              THEN [stask EXCEPT ![r] = [state |-> "pending", path |-> path,
                                         converted |-> converted, ret |-> None]]
              ELSE stask
  /\ pc' = [pc EXCEPT ![r] = "ret"]

\* the test at line 200: the requested format is the synthesized one
MutSameFormatNever(fmt) == FALSE

SameFormat(fmt) == fmt = "mp3"

\* lines 159-164 of save: the destination is opened and written once the
\* GET has returned status 200
MutWriteBeforeStatus(dk, path, status) == [dk EXCEPT ![path] = "mp3"]

disk_after_get(dk, path, status) ==
  IF status # 200 THEN dk ELSE [dk EXCEPT ![path] = "mp3"]

\* the download GET is answered: save writes the file and returns, and
\* _generate_audio runs from line 198 to its end without suspending
DownloadResponseWith(r, status) ==
  /\ pc[r] = "get"
  /\ IF status # 200
          THEN /\ Raise(r, "download")
               /\ disk' = disk_after_get(disk, temp[r], status)
               /\ UNCHANGED <<response_format, conv, ffruns, probes, stask, retval>>
          ELSE
            \E fmt \in Formats :
            LET written == disk_after_get(disk, temp[r], status)
            IN /\ response_format' = [response_format EXCEPT ![r] = fmt]
               /\ IF SameFormat(fmt)
                  THEN /\ disk' = written
                       /\ Return(r, temp[r], FALSE)
                       /\ UNCHANGED <<conv, ffruns, probes, TEMP_FILES, exc>>
                  ELSE \E installed \in BOOLEAN :
                       /\ probes' = [probes EXCEPT ![r] = probes[r] + 1]
                       /\ IF ~installed
                          THEN /\ disk' = written
                               /\ retval' = [retval EXCEPT ![r] = temp[r]]
                               /\ pc' = [pc EXCEPT ![r] = "ret"]
                               /\ UNCHANGED <<conv, ffruns, TEMP_FILES, exc, stask>>
                          ELSE \E n \in FreeNames(written) :
                               LET out == Tmp(n)
                                   created == [written EXCEPT ![out] = "empty"]
                                   cmd == ffmpeg_command(temp[r], fmt, out)
                               IN /\ conv' = [conv EXCEPT ![r] = out]
                                  /\ IF ~ArgvOk(cmd)
                                     THEN /\ disk' = created
                                          /\ exc' = [exc EXCEPT ![r] = "ffmpeg_args"]
                                          /\ TEMP_FILES' = (TEMP_FILES \cup {out}) \ {temp[r]}
                                          /\ pc' = [pc EXCEPT ![r] = "ret"]
                                          /\ UNCHANGED <<ffruns, stask, retval>>
                                     ELSE \E exit \in {0, 1} :
                                          /\ ffruns' = [ffruns EXCEPT ![r] = Append(ffruns[r], cmd)]
                                          /\ IF exit = 0
                                             THEN /\ disk' = [created EXCEPT ![out] = fmt]
                                                  /\ TEMP_FILES' = TEMP_FILES \cup {out}
                                                  /\ Return(r, out, TRUE)
                                                  /\ UNCHANGED exc
                                             ELSE /\ disk' = created
                                                  /\ exc' = [exc EXCEPT ![r] = "ffmpeg_exit"]
                                                  /\ TEMP_FILES' = (TEMP_FILES \cup {out}) \ {temp[r]}
                                                  /\ pc' = [pc EXCEPT ![r] = "ret"]
                                                  /\ UNCHANGED <<stask, retval>>
  /\ UNCHANGED <<req, save_output, client, temp, polls, waited, gets, result,
                 outdir, ctask, attempts, slept>>
  /\ UNCHANGED parseVars

DownloadResponse(r) == \E status \in DownloadStatuses : DownloadResponseWith(r, status)

\* ------------------------------------------------------- _save_audio_file
RECURSIVE replace(_, _, _)
replace(s, old, new) ==
  IF Len(s) = 0 THEN <<>>
  ELSE <<IF Head(s) = old THEN new ELSE Head(s)>> \o replace(Tail(s), old, new)

\* os.path.join(DEFAULT_OUTPUT_DIR, f"{voice}_{timestamp}.{ext}")
output_filename(voice, timestamp, ext) ==
  <<"out", replace(voice, "-", "_"), timestamp, ext>>

\* shutil.copy2 creates or overwrites the destination
Put(dir, name, content, title, owner) ==
  {f \in dir : f.name # name}
    \cup {[name |-> name, content |-> content, title |-> title, owner |-> owner]}

\* create_task(_delayed_cleanup(...)) stands in the finally at lines 152-153
MutSaveCleanupOnlyAfterCopy(r, timestamp, copy_ok, meta_ok) ==
  LET t == stask[r]
      name == output_filename(client[r][1].voice, timestamp,
                              IF t.converted THEN response_format[r] ELSE "mp3")
      tagged == response_format[r] = "mp3" /\ ~t.converted /\ meta_ok
  IN /\ outdir' = IF copy_ok
                  THEN Put(outdir, name, disk[t.path],
                           IF tagged THEN req[r].text ELSE None, r)
                  ELSE outdir
     /\ stask' = [stask EXCEPT ![r] =
                    [t EXCEPT !.state = "done",
                              !.ret = IF copy_ok THEN name ELSE None]]
     /\ ctask' = IF ~copy_ok THEN ctask ELSE
                  [ctask EXCEPT ![r] =
                    [state |-> IF req[r].mode = "worker"
                               THEN "cancelled" ELSE "pending",
                     path |-> t.path,
                     retries |-> CleanupRetries, delay |-> CleanupDelay]]

\* the body of _save_audio_file for save_output = True: the copy, the title
\* tag, and in the finally the _delayed_cleanup task for the source, which
\* is cancelled unstarted when the task's loop belongs to asyncio.run
save_audio_file(r, timestamp, copy_ok, meta_ok) ==
  LET t == stask[r]
      name == output_filename(client[r][1].voice, timestamp,
                              IF t.converted THEN response_format[r] ELSE "mp3")
      tagged == response_format[r] = "mp3" /\ ~t.converted /\ meta_ok
  IN /\ outdir' = IF copy_ok
                  THEN Put(outdir, name, disk[t.path],
                           IF tagged THEN req[r].text ELSE None, r)
                  ELSE outdir
     /\ stask' = [stask EXCEPT ![r] =
                    [t EXCEPT !.state = "done",
                              !.ret = IF copy_ok THEN name ELSE None]]
     /\ ctask' = [ctask EXCEPT ![r] =
                    [state |-> IF req[r].mode = "worker"
                               THEN "cancelled" ELSE "pending",
                     path |-> t.path,
                     retries |-> CleanupRetries, delay |-> CleanupDelay]]

\* ---------------------------------------------------------- generate_speech
\* "except Exception: ... return None" at lines 277-279
MutFacadeReraises(e, value) == IF e = "none" THEN value ELSE <<"raised", e, e>>

facade_result(e, value) == IF e = "none" THEN value ELSE None

\* future.result() at line 272 waits for the worker thread, whose loop is
\* its own: the wait ends when the pipeline does
MutLoopFinishWorkerBlocked(r) ==
  /\ pc[r] = "ret"
  /\ req[r].mode = "direct"
  /\ IF stask[r].state = "pending"
     THEN \E timestamp \in Timestamps, copy_ok \in BOOLEAN, meta_ok \in BOOLEAN :
            save_audio_file(r, timestamp, copy_ok, meta_ok)
     ELSE UNCHANGED <<outdir, stask, ctask>>
  /\ result' = [result EXCEPT ![r] = facade_result(exc[r], retval[r])]
  /\ pc' = [pc EXCEPT ![r] = "done"]
  \* the exception is logged and dropped at line 278; the frame of save,
  \* with its loop counter, is released
  /\ exc' = [exc EXCEPT ![r] = "none"]
  /\ polls' = [polls EXCEPT ![r] = 0]
  /\ waited' = [waited EXCEPT ![r] = 0]
  /\ gets' = [gets EXCEPT ![r] = 0]
  /\ UNCHANGED <<req, response_format, save_output, client, temp, conv, retval,
                 TEMP_FILES, disk, ffruns, probes, attempts, slept>>
  /\ UNCHANGED parseVars

\* The last iteration of the loop that drove _generate_audio: the
\* _save_audio_file task, made ready before the coroutine finished, runs
\* whole (it never suspends) ahead of the callback that stops the loop; the
\* _delayed_cleanup task it creates has not taken a step when the loop
\* stops.  asyncio.run then cancels it; run_until_complete leaves it on the
\* thread's loop.  generate_speech returns the value or, after an
\* exception, None.
LoopFinish(r) ==
  /\ pc[r] = "ret"
  /\ IF stask[r].state = "pending"
     THEN \E timestamp \in Timestamps, copy_ok \in BOOLEAN, meta_ok \in BOOLEAN :
            save_audio_file(r, timestamp, copy_ok, meta_ok)
     ELSE UNCHANGED <<outdir, stask, ctask>>
  /\ result' = [result EXCEPT ![r] = facade_result(exc[r], retval[r])]
  /\ pc' = [pc EXCEPT ![r] = "done"]
  \* the exception is logged and dropped at line 278; the frame of save,
  \* with its loop counter, is released
  /\ exc' = [exc EXCEPT ![r] = "none"]
  /\ polls' = [polls EXCEPT ![r] = 0]
  /\ waited' = [waited EXCEPT ![r] = 0]
  /\ gets' = [gets EXCEPT ![r] = 0]
  /\ UNCHANGED <<req, response_format, save_output, client, temp, conv, retval,
                 TEMP_FILES, disk, ffruns, probes, attempts, slept>>
  /\ UNCHANGED parseVars

\* ------------------------------------------------------- _delayed_cleanup
\* Path(file_path).unlink(missing_ok=True) with the file system refusing
\* (fails) or not: a missing file is not an error
unlink_ok(dk, path, fails) == dk[path] = "absent" \/ ~fails

\* one iteration of the loop at lines 106-114: asyncio.sleep(delay) returns,
\* then unlink either succeeds, and the task discards the path and returns,
\* or raises, and the loop goes on or ends at line 115
cleanup_iteration(q, fails) ==
  /\ ctask[q].state = "sleeping"
  /\ slept' = [slept EXCEPT ![q] = slept[q] + ctask[q].delay]
  /\ IF unlink_ok(disk, ctask[q].path, fails)
     THEN /\ disk' = [disk EXCEPT ![ctask[q].path] = "absent"]
          /\ TEMP_FILES' = TEMP_FILES \ {ctask[q].path}
          /\ ctask' = [ctask EXCEPT ![q].state = "done"]
          /\ UNCHANGED attempts
     ELSE /\ attempts' = [attempts EXCEPT ![q] = attempts[q] + 1]
          /\ ctask' = [ctask EXCEPT ![q].state =
                         IF MoreAttempts(attempts[q] + 1, ctask[q].retries)
                         THEN "sleeping" ELSE "exhausted"]
          /\ UNCHANGED <<disk, TEMP_FILES>>

\* a task whose loop is being driven runs one iteration
CleanupRun(q) ==
  /\ \E fails \in BOOLEAN : cleanup_iteration(q, fails)
  /\ UNCHANGED <<pc, req, response_format, save_output, client, temp, conv, polls,
                 waited, gets, exc, retval, result, outdir, ffruns, probes, stask>>
  /\ UNCHANGED parseVars

\* the tasks left on the thread's loop move while a run_until_complete
\* drives that loop
CleanupAttempt(q) == L0Busy /\ CleanupRun(q)

Init ==
  /\ pin = <<>>
  /\ pout = <<>>
  /\ InitPipe

Next ==
  \E r \in Reqs :
    \/ Start(r)
    \/ NetworkError(r)
    \/ InitiateResponse(r)
    \/ PollResponse(r)
    \/ PollSleepDone(r)
    \/ DownloadResponse(r)
    \/ LoopFinish(r)
    \/ CleanupAttempt(r)

Spec == Init /\ [][Next]_vars

\* every awaited response arrives or fails within receive_timeout, every
\* sleep ends, a driven loop runs its ready tasks and due timers; callers
\* keep calling as long as the request budget lasts
Progress(r) ==
  \/ NetworkError(r)
  \/ InitiateResponse(r)
  \/ PollResponse(r)
  \/ PollSleepDone(r)
  \/ DownloadResponse(r)
  \/ LoopFinish(r)
  \/ CleanupAttempt(r)

FairSpec ==
  Spec /\ \A r \in Reqs : WF_vars(Start(r)) /\ WF_vars(Progress(r))

VoiceStrings == UNION {[1..n -> Alphabet] : n \in 0..MaxLen}

InitParse ==
  /\ pin \in VoiceStrings
  /\ pout = <<>>
  /\ InitPipe

CallParse ==
  /\ pout = <<>>
  /\ pout' = parse_voice_string(pin)
  /\ UNCHANGED pin
  /\ UNCHANGED pipeVars

NextParse == CallParse

SpecParse == InitParse /\ [][NextParse]_vars

\* ------------------------------------------------------ concurrent callers
\* Two callers on different threads: the second may call while the first
\* call is under way.  At most one call at a time is driven by the loop of
\* the first thread (Call lets a direct call start only when that loop is
\* idle); a call made from a running loop has a thread and a loop of its own.
\* A step of one call between two of its suspensions touches only names it
\* has created itself, so steps of other threads inside it are not told
\* apart from steps before or after it.
ConcReqs == {q \in Reqs : q <= 2}

CallConc(r) ==
  /\ r \in ConcReqs
  /\ \A q \in Reqs : q < r => pc[q] # "idle"
  /\ Call(r)

NextConc ==
  \E r \in Reqs :
    \/ CallConc(r)
    \/ NetworkError(r)
    \/ InitiateResponse(r)
    \/ PollResponse(r)
    \/ PollSleepDone(r)
    \/ DownloadResponse(r)
    \/ LoopFinish(r)
    \/ CleanupAttempt(r)

SpecConc == Init /\ [][NextConc]_vars

\* -------------------------------------------- _delayed_cleanup on its own
\* _delayed_cleanup(file_path, retries, delay) called for every combination
\* of arguments below, with the file present or missing, on a loop that is
\* driven; two tasks may be given the same path
CleanupTasks == {q \in Reqs : q <= 2}
CleanupPaths == {Tmp(1), Tmp(2)}
RetriesArgs == {0, 1, CleanupRetries}
DelayArgs == {1, CleanupDelay}

InitCleanup ==
  /\ pin = <<>>
  /\ pout = <<>>
  /\ pc = [r \in Reqs |-> "idle"]
  /\ req = [r \in Reqs |-> NoReq]
  /\ response_format = [r \in Reqs |-> ""]
  /\ save_output = [r \in Reqs |-> FALSE]
  /\ client = [r \in Reqs |-> None]
  /\ temp = [r \in Reqs |-> None]
  /\ conv = [r \in Reqs |-> None]
  /\ polls = [r \in Reqs |-> 0]
  /\ waited = [r \in Reqs |-> 0]
  /\ gets = [r \in Reqs |-> 0]
  /\ exc = [r \in Reqs |-> "none"]
  /\ retval = [r \in Reqs |-> None]
  /\ result = [r \in Reqs |-> None]
  /\ outdir = {}
  /\ ffruns = [r \in Reqs |-> <<>>]
  /\ probes = [r \in Reqs |-> 0]
  /\ stask = [r \in Reqs |-> NoSave]
  /\ attempts = [r \in Reqs |-> 0]
  /\ slept = [r \in Reqs |-> 0]
  /\ ctask \in {t \in [Reqs -> [state : {"none", "pending"}, path : CleanupPaths \cup {None},
                                 retries : RetriesArgs, delay : DelayArgs \cup {0}]] :
                 \A q \in Reqs :
                   IF q \in CleanupTasks
                   THEN t[q].state = "pending" /\ t[q].path # None /\ t[q].delay # 0
                   ELSE t[q] = NoCleanup}
  /\ disk \in {dk \in [Paths -> {"absent", "mp3"}] :
                 \A p \in Paths \ CleanupPaths : dk[p] = "absent"}
  /\ TEMP_FILES = {ctask[q].path : q \in CleanupTasks}

\* the task takes its first step
CleanupBegin(q) ==
  /\ ctask[q].state = "pending"
  /\ ctask' = [ctask EXCEPT ![q] = cleanup_begin(ctask[q])]
  /\ UNCHANGED <<pc, req, response_format, save_output, client, temp, conv, polls,
                 waited, gets, exc, retval, result, TEMP_FILES, disk, outdir, ffruns,
                 probes, stask, attempts, slept>>
  /\ UNCHANGED parseVars

NextCleanup == \E q \in Reqs : CleanupBegin(q) \/ CleanupRun(q)

SpecCleanup == InitCleanup /\ [][NextCleanup]_vars

\* ===================================================================
\* Claims
\* ===================================================================

\* ephemeral files a request created
Created(r) == {temp[r], conv[r]} \ {None}

\* the voice string with the persist flag removed
BaseVoice(voice) ==
  IF Len(voice) >= 2 /\ voice[Len(voice) - 1] = "+" /\ voice[Len(voice)] = "s"
  THEN SubSeq(voice, 1, Len(voice) - 2) ELSE voice

\* paths a _delayed_cleanup task was created for on behalf of the request
Scheduled(r) == IF ctask[r].state = "none" THEN {} ELSE {ctask[r].path}

\* ------------------------------------------------------------------- C1
\* C1: for every request handled by generate_speech, whatever its outcome,
\* every ephemeral file the request created is eventually deleted from disk.
C1_EphemeralFilesEventuallyDeleted ==
  \A r \in Reqs :
    [](pc[r] = "done" => <>(\A p \in Created(r) : disk[p] = "absent"))

\* ------------------------------------------------------------------- C2
IsAudio(content) == content \notin {"absent", "empty"}

\* C2: when generate_speech returns, either it returns a path at which an
\* output audio file exists and no internal failure occurred, or an
\* internal failure occurred and it returns the failure result None; it
\* never hands the exception to its caller.
C2_ReturnsFileOrFailure ==
  [][\A r \in Reqs :
       (pc[r] = "ret" /\ pc'[r] = "done") =>
         IF exc[r] = "none"
         THEN result'[r] \in Paths /\ IsAudio(disk'[result'[r]])
         ELSE result'[r] = None]_vars

\* one request has returned a path and another, which had created its temp
\* file before failing, has returned None
C2_Witness ==
  \E a, b \in Reqs :
    /\ pc[a] = "done" /\ result[a] \in Paths
    /\ pc[b] = "done" /\ result[b] = None /\ temp[b] # None

\* ------------------------------------------------------------------- C3
\* C3: on success the value returned is the durable path whenever the voice
\* string carried the persist flag and persistence succeeded, and it is
\* the ephemeral artifact's path when the flag was not set.
C3_ReturnsDurablePathWhenPersisted ==
  \A r \in Reqs :
    (pc[r] = "done" /\ result[r] # None) =>
      /\ (save_output[r] /\ stask[r].state = "done" /\ stask[r].ret # None)
            => result[r] = stask[r].ret
      /\ ~save_output[r] => result[r] \in Created(r)

\* ------------------------------------------------------------------- C4
\* the claim's condition on a poll payload
C4_Complete(resp) ==
  resp.code = "int0" /\ resp.is_complete = TRUE /\ resp.file_link = TRUE

\* C4: after a deferred initiate response save issues at most 12 polls, each
\* one after the first following a 5-unit wait; the first poll whose
\* payload has code 0, is_complete and a file_link leads to the download
\* with no further poll, any other payload leads to no download; when the
\* 12th poll does not satisfy this either, save fails with the timeout
\* error after exactly 12 polls and has issued no download.
C4_PollingBoundedAndStopsAtFirstComplete ==
  [][\A r \in Reqs :
       /\ polls'[r] <= PollLimit
       /\ \A resp \in PollResponses :
            PollResponseWith(r, resp) =>
              IF C4_Complete(resp)
              THEN pc'[r] = "get" /\ gets'[r] = 1 /\ polls'[r] = polls[r]
              ELSE pc'[r] = "sleep" /\ gets'[r] = 0
       /\ pc[r] = "get" => polls'[r] <= polls[r]
       /\ polls'[r] = polls[r] + 1 =>
            \/ pc[r] = "post" /\ polls[r] = 0
            \/ pc[r] = "sleep" /\ waited'[r] = waited[r] + PollDelay
       /\ (pc[r] = "sleep" /\ pc'[r] # "sleep") =>
            IF polls[r] = PollLimit
            THEN exc'[r] = "timeout" /\ gets'[r] = 0
                 /\ waited'[r] = PollLimit * PollDelay
            ELSE pc'[r] = "poll" /\ exc'[r] = "none"
       /\ exc'[r] = "timeout" => polls'[r] = PollLimit /\ gets'[r] = 0]_vars

\* the twelfth poll was the first to report completion: the download is
\* under way after 11 waits
C4_Witness ==
  \E r \in Reqs :
    pc[r] = "get" /\ polls[r] = PollLimit /\ gets[r] = 1
      /\ waited[r] = (PollLimit - 1) * PollDelay

\* ------------------------------------------------------------------- C5
\* C5: a non-success HTTP status at the initiate POST, at any status poll or
\* at the download GET makes save fail with an error; a poll answered with
\* a non-success status is never treated as an ordinary poll.
C5_NonSuccessStatusFails ==
  [][\A r \in Reqs :
       /\ \A resp \in InitiateResponses :
            (InitiateResponseWith(r, resp) /\ resp.status # 200) => exc'[r] # "none"
       /\ \A resp \in PollResponses :
            (PollResponseWith(r, resp) /\ resp.status # 200) => exc'[r] # "none"
       /\ \A status \in DownloadStatuses :
            (DownloadResponseWith(r, status) /\ status # 200) => exc'[r] # "none"]_vars

\* ------------------------------------------------------------------- C6
C6_Roles(r) ==
  {k \in {"original", "transcoded"} :
     \/ k = "original" /\ temp[r] \in Scheduled(r)
     \/ k = "transcoded" /\ conv[r] \in Scheduled(r)}

\* two finished runs with the same arguments and the same environment
\* outcome, one with the persist flag and one without
C6_DifferOnlyInFlag(a, b) ==
  /\ pc[a] = "done" /\ pc[b] = "done"
  /\ save_output[a] # save_output[b]
  /\ BaseVoice(req[a].voice) = BaseVoice(req[b].voice)
  /\ req[a].text = req[b].text
  /\ req[a].mode = req[b].mode
  /\ response_format[a] = response_format[b]
  /\ (result[a] = None) = (result[b] = None)
  /\ (temp[a] = None) = (temp[b] = None)
  /\ (conv[a] = None) = (conv[b] = None)

\* C6: two runs that differ only in the persist flag have the same set of
\* ephemeral files scheduled for delayed cleanup, and that set always
\* contains the synthesized file and, when transcoding happened, the
\* transcoded file.
C6_PersistDoesNotChangeScheduledCleanup ==
  /\ \A a, b \in Reqs : C6_DifferOnlyInFlag(a, b) => C6_Roles(a) = C6_Roles(b)
  /\ \A r \in Reqs : pc[r] = "done" => Created(r) \subseteq Scheduled(r)

\* ------------------------------------------------------------------- C7
\* C7: when a pipeline invocation has completed, on success and on every
\* failure after the temp file was created, a delayed-cleanup task has
\* been scheduled for every ephemeral file the invocation created.
C7_CleanupScheduledForEveryEphemeralFile ==
  \A r \in Reqs :
    pc[r] \in {"ret", "done"} => \A p \in Created(r) : p \in Scheduled(r)

\* ------------------------------------------------------------------ C10
C10_Expected(fmt) ==
  CASE fmt = "aac"  -> [codec |-> "aac", container |-> "mp4", b_a |-> TRUE]
    [] fmt = "wav"  -> [codec |-> "pcm_s16le", container |-> "wav", b_a |-> FALSE]
    [] fmt = "opus" -> [codec |-> "libopus", container |-> "ogg", b_a |-> TRUE]
    [] fmt = "flac" -> [codec |-> "flac", container |-> "flac", b_a |-> TRUE]

\* C10: for every requested format other than mp3, with the encoder
\* available, the encoder is invoked exactly once with the codec and the
\* container of the fixed mapping, "-b:a 192k" for every format but wav
\* and no bitrate flag for wav; with exit code zero the request succeeds
\* with the transcoded file.
C10_EncoderInvokedOnceWellFormed ==
  \A r \in Reqs :
    (pc[r] = "ret" /\ response_format[r] \notin {"", "mp3"} /\ conv[r] # None) =>
      /\ Len(ffruns[r]) = 1
      /\ LET cmd == ffruns[r][1]
             exp == C10_Expected(response_format[r])
         IN /\ cmd.input = temp[r] /\ cmd.output = conv[r]
            /\ cmd.codec = exp.codec /\ cmd.container = exp.container
            /\ cmd.b_a = exp.b_a
            /\ cmd.b_a => cmd.bitrate = <<"192k">>
      /\ disk[conv[r]] = response_format[r] => retval[r] = conv[r] /\ exc[r] = "none"

\* ------------------------------------------------------------------- C8
\* the grammar name[-n1][-n2][-n3], read by splitting at the hyphens
RECURSIVE Split(_)
Split(s) ==
  IF \A i \in 1..Len(s) : s[i] # "-" THEN <<s>>
  ELSE LET i == CHOOSE j \in 1..Len(s) : s[j] = "-" /\ \A k \in 1..(j - 1) : s[k] # "-"
       IN <<SubSeq(s, 1, i - 1)>> \o Split(SubSeq(s, i + 1, Len(s)))

AllIn(s, cls) == Len(s) > 0 /\ \A i \in 1..Len(s) : s[i] \in cls

InGrammar(s) ==
  LET f == Split(s)
  IN /\ Len(f) \in 1..4
     /\ AllIn(f[1], NameClass)
     /\ \A k \in 2..Len(f) : AllIn(f[k], DigitClass)

C8_Expected(s) ==
  LET f == Split(s)
      Comp(k) == IF k <= Len(f) /\ int(f[k]) \in 0..10 THEN <<int(f[k])>> ELSE None
  IN <<f[1], Comp(2), Comp(3), Comp(4)>>

\* C8: for every voice string of the form name[-n1][-n2][-n3],
\* parse_voice_string returns (it does not raise) the 4-tuple of the name
\* and n1, n2, n3 in the positions rate, pitch, volume, where a component
\* that is absent or greater than 10 is None and one in 0..10 is unchanged.
C8_ParseReturnsBoundedComponents ==
  (pout # <<>> /\ InGrammar(pin)) => pout = C8_Expected(pin)

\* a grammar string with two numbers, the first dropped for exceeding 10
\* and the second kept, has been parsed ("s-11-0")
C8_Witness ==
  /\ pout # <<>>
  /\ InGrammar(pin)
  /\ Len(Split(pin)) = 3
  /\ int(Split(pin)[2]) > 10
  /\ pout[2] = None
  /\ pout[3] # None

\* ------------------------------------------------------------------- C9
C9_Unmatched(voice) == Len(voice) = 0 \/ voice[1] \notin NameClass

\* C9: when the voice string does not match the base-identifier pattern,
\* the request goes on to synthesis with the whole raw string as voice and
\* the default rate, pitch and volume, instead of failing.
C9_UnmatchedVoiceSynthesizes ==
  \A r \in Reqs :
    (pc[r] # "idle" /\ C9_Unmatched(BaseVoice(req[r].voice)))
      => client[r] = <<[voice |-> BaseVoice(req[r].voice), rate |-> DEFAULT_SPEED,
                        pitch |-> DEFAULT_PITCH, volume |-> DEFAULT_VOLUME]>>

\* ------------------------------------------------------------------ C11
\* C11: when the requested format is mp3, the synthesized one, the pipeline
\* returns the synthesized file as save wrote it and spawns no process:
\* neither the capability probe nor the encoder runs, and no second temp
\* file is created or registered.
C11_SameFormatPassthroughNoSubprocess ==
  [][\A r \in Reqs :
       /\ (DownloadResponseWith(r, 200) /\ response_format'[r] = "mp3") =>
            /\ exc'[r] = "none" /\ retval'[r] = temp[r]
            /\ disk'[temp[r]] = "mp3"
            /\ \A p \in Paths \ {temp[r]} : disk'[p] = disk[p]
            /\ probes'[r] = 0 /\ ffruns'[r] = <<>>
            /\ conv'[r] = None
            /\ TEMP_FILES' = TEMP_FILES
       /\ (pc[r] = "ret" /\ pc'[r] = "done" /\ response_format[r] = "mp3") =>
            /\ result'[r] = temp[r]
            /\ probes'[r] = 0 /\ ffruns'[r] = <<>> /\ conv'[r] = None
            /\ disk'[temp[r]] = "mp3"]_vars

\* a request for mp3 has returned its synthesized file, and a request for
\* another format has run the probe
C11_Witness ==
  \E a, b \in Reqs :
    /\ pc[a] = "done" /\ response_format[a] = "mp3" /\ result[a] = temp[a]
    /\ probes[a] = 0 /\ conv[a] = None
    /\ response_format[b] = "wav" /\ probes[b] = 1

\* ------------------------------------------------------------------ C12
\* the two kinds of initiate payload the claim speaks of
C12_Immediate(resp) ==
  resp.code = "int0" /\ resp.is_complete = TRUE /\ resp.file_link = TRUE

C12_Rejected(resp) ==
  resp.code # "int0" /\ ~(resp.code = "str2105" /\ resp.task_id = TRUE)

\* C12: an initiate response with code 0, is_complete and a file_link makes
\* save issue no status poll and exactly one download GET; a response whose
\* code is neither 0 nor "2105" with a task_id makes save fail at once, with
\* no poll and no download.
C12_ImmediateDownloadOrImmediateFailure ==
  [][\A r \in Reqs :
       /\ \A resp \in InitiateResponses :
            InitiateResponseWith(r, resp) =>
              /\ (resp.status = 200 /\ C12_Immediate(resp)) =>
                    /\ pc'[r] = "get" /\ exc'[r] = "none"
                    /\ polls'[r] = 0 /\ gets'[r] = 1
              /\ C12_Rejected(resp) =>
                    /\ pc'[r] = "ret" /\ exc'[r] # "none"
                    /\ polls'[r] = 0 /\ gets'[r] = 0
       \* once the download is sent save sends nothing more
       /\ pc[r] = "get" => polls'[r] = polls[r] /\ gets'[r] = gets[r]]_vars

\* save has returned after the download with no poll and one GET, and an
\* earlier request with a text has failed
C12_Witness ==
  \E a, b \in Reqs :
    /\ pc[a] = "ret" /\ exc[a] = "none" /\ polls[a] = 0 /\ gets[a] = 1
    /\ disk[temp[a]] = "mp3"
    /\ pc[b] = "done" /\ result[b] = None /\ req[b].text # <<>> /\ temp[b] # None

\* ------------------------------------------------------------------ C13
\* the failures the claim names and the class of each
C13_Failures ==
  {"timeout", "status", "api_error", "incomplete", "no_link", "download", "ffmpeg_exit"}

C13_Class(e) ==
  CASE e = "timeout" -> "SynthesisTimeout"
    [] e = "ffmpeg_exit" -> "TranscodeError"
    [] OTHER -> "RemoteError"

\* C13: the failure result generate_speech hands to its caller identifies
\* the root cause: the value returned after a polling timeout, a remote
\* error or an encoder failure differs from the value returned after a
\* failure of another class.
C13_FailureResultIsClassified ==
  [][\A r \in Reqs :
       (pc[r] = "ret" /\ pc'[r] = "done" /\ exc[r] \in C13_Failures) =>
         \A e \in C13_Failures :
           C13_Class(e) # C13_Class(exc[r]) => result'[r] # facade_result(e, retval[r])]_vars

\* ------------------------------------------------------------------ C14
\* C14: a failure of the copy or of the title embedding never fails the
\* request: the caller still receives the ephemeral file's path, a failed
\* embedding still counts as a successful persist, and whether persistence
\* succeeds or fails a delayed cleanup is scheduled for the source file.
C14_PersistenceFailureNeverFailsRequest ==
  [][\A r \in Reqs :
       \A timestamp \in Timestamps, copy_ok \in BOOLEAN, meta_ok \in BOOLEAN :
         (/\ pc[r] = "ret" /\ pc'[r] = "done" /\ stask[r].state = "pending"
          /\ save_audio_file(r, timestamp, copy_ok, meta_ok)) =>
           /\ result'[r] = stask[r].path
           /\ result'[r] \in Created(r) /\ IsAudio(disk'[result'[r]])
           /\ copy_ok =>
                /\ stask'[r].ret # None
                /\ \E f \in outdir' : f.name = stask'[r].ret /\ f.content = disk[stask[r].path]
           /\ ~copy_ok => stask'[r].ret = None /\ outdir' = outdir
           /\ ctask'[r].state # "none" /\ ctask'[r].path = stask[r].path]_vars

\* one request whose copy failed and one whose mp3 copy was made but not
\* tagged have both returned their ephemeral path
C14_Witness ==
  \E a, b \in Reqs :
    /\ pc[a] = "done" /\ stask[a].state = "done" /\ stask[a].ret = None
    /\ result[a] = stask[a].path /\ stask[a].path \in Scheduled(a)
    /\ pc[b] = "done" /\ stask[b].state = "done" /\ stask[b].ret # None
    /\ response_format[b] = "mp3" /\ result[b] = temp[b]
    /\ \E f \in outdir : f.owner = b /\ f.title = None

\* ------------------------------------------------------------------ C15
\* C15: every cleanup task that runs to its end leaves its path out of
\* TEMP_FILES, after a successful deletion and also after all its attempts
\* have failed.
C15_FinishedCleanupLeavesRegistry ==
  [][\A q \in Reqs :
       (ctask[q].state = "sleeping" /\ ctask'[q].state \in {"done", "exhausted"})
         => ctask[q].path \notin TEMP_FILES']_vars

C17_SaveFailures ==
  {"empty_text", "network", "status", "api_error", "incomplete", "no_link",
   "timeout", "download"}

\* C17: save writes the destination file only after the download GET has
\* returned status 200; whenever save fails (empty text, bad initiate
\* status, error code, incomplete result, missing file link, polling
\* timeout, bad download status) the destination file's content is the
\* one it had before.
C17_DestinationWrittenOnlyAfterGoodDownload ==
  [][\A r \in Reqs :
       /\ \A status \in DownloadStatuses :
            (DownloadResponseWith(r, status) /\ status # 200) => disk' = disk
       /\ (exc[r] = "none" /\ exc'[r] \in C17_SaveFailures) =>
            IF temp[r] = None
            THEN disk'[temp'[r]] = "empty"
            ELSE disk'[temp[r]] = disk[temp[r]]
       /\ (pc[r] \in {"post", "poll", "sleep", "get"} /\ disk'[temp[r]] # disk[temp[r]]) =>
            pc[r] = "get" /\ DownloadResponseWith(r, 200)]_vars

\* a download answered with a bad status has left the destination as it was
\* created, after an earlier request's destination was written
C17_Witness ==
  \E a, b \in Reqs :
    /\ pc[a] = "ret" /\ exc[a] = "download" /\ gets[a] = 1 /\ disk[temp[a]] = "empty"
    /\ pc[b] = "done" /\ result[b] \in Paths /\ result[b] = temp[b]
    /\ disk[temp[b]] = "mp3"

\* ------------------------------------------------------------------ C18
\* C18: whenever the voice string carries the persist flag and synthesis
\* succeeds, one persistence operation has been performed on the returned
\* artifact by the time generate_speech returns, on every success path:
\* passthrough, transcode, and the fallback taken when the encoder is
\* unavailable.
C18_PersistsOnEverySuccessPath ==
  \A r \in Reqs :
    (pc[r] = "done" /\ save_output[r] /\ result[r] # None) =>
      stask[r].state = "done" /\ stask[r].path = result[r]

\* ------------------------------------------------------------------ C19
\* a _delayed_cleanup task for the path has run to its end
C19_CleanupFinished(p) ==
  \E q \in Reqs : ctask[q].path = p /\ ctask[q].state \in {"done", "exhausted"}

\* C19: every ephemeral file a request created that still exists on disk
\* and has no finished cleanup task is a member of TEMP_FILES, also after
\* the request has failed.
C19_ExistingEphemeralFilesAreRegistered ==
  \A r \in Reqs :
    \A p \in Created(r) :
      (disk[p] # "absent" /\ ~C19_CleanupFinished(p)) => p \in TEMP_FILES

\* ------------------------------------------------------------------ C20
\* calls of unlink the task has made
C20_Tries(q) == attempts[q] + IF ctask[q].state = "done" THEN 1 ELSE 0

\* C20: _delayed_cleanup(path, retries, delay) makes at most `retries`
\* deletion attempts, each one after a full wait of `delay` and none before
\* the first wait has elapsed; it stops at the first successful attempt;
\* an attempt on a file that is already missing is a successful one.
C20_BoundedDelayedAttempts ==
  /\ [](\A q \in Reqs :
          /\ C20_Tries(q) <= ctask[q].retries
          /\ slept[q] = C20_Tries(q) * ctask[q].delay)
  /\ [][\A q \in Reqs :
          /\ \A fails \in BOOLEAN :
               cleanup_iteration(q, fails) =>
                 /\ attempts[q] < ctask[q].retries
                 /\ slept'[q] = slept[q] + ctask[q].delay
                 /\ (~fails \/ disk[ctask[q].path] = "absent") =>
                      /\ ctask'[q].state = "done"
                      /\ disk'[ctask[q].path] = "absent"
                      /\ attempts'[q] = attempts[q]
                 /\ (fails /\ disk[ctask[q].path] # "absent") =>
                      /\ attempts'[q] = attempts[q] + 1
                      /\ disk' = disk
          /\ ctask[q].state \in {"done", "exhausted"} =>
               /\ ctask'[q] = ctask[q]
               /\ attempts'[q] = attempts[q] /\ slept'[q] = slept[q]
          /\ ctask[q].state = "pending" => disk' = disk \/ ctask'[q] = ctask[q]]_vars

\* two tasks were given the same path: one ended at its third attempt after
\* two failures, the other at its first, and one of the two met a file
\* that was already missing
C20_Witness ==
  \E a, b \in Reqs :
    /\ a # b /\ ctask[a].path = ctask[b].path
    /\ ctask[a].state = "done" /\ attempts[a] = 2 /\ slept[a] = 3 * ctask[a].delay
    /\ ctask[b].state = "done" /\ attempts[b] = 0 /\ slept[b] = ctask[b].delay

\* ------------------------------------------------------------------ C21
\* ephemeral files of a request: those it created, until its own cleanup
\* task has deleted them
C21_Owned(r) ==
  {p \in Created(r) : ~(ctask[r].state = "done" /\ ctask[r].path = p)}

\* C21: in every interleaving of concurrent requests the ephemeral paths of
\* one request are distinct from those of every other, and only a step of
\* the owning request (its failure handling, its cleanup task, its registry
\* add or discard) changes the content of one of its ephemeral files,
\* deletes it or removes it from TEMP_FILES.
C21_RequestsDoNotTouchEachOthersFiles ==
  /\ [](\A a, b \in Reqs : a # b => C21_Owned(a) \cap C21_Owned(b) = {})
  /\ [][\A b \in Reqs :
          \A p \in C21_Owned(b) :
            (\/ disk'[p] # disk[p]
             \/ p \in TEMP_FILES /\ p \notin TEMP_FILES') => Progress(b)]_vars

\* two requests are under way at once: the first has failed and its handler
\* has discarded its own name, the file of the second is still registered
C21_Witness ==
  \E a, b \in Reqs :
    /\ a # b
    /\ pc[a] = "ret" /\ exc[a] = "download" /\ temp[a] \notin TEMP_FILES
    /\ pc[b] \in {"poll", "sleep", "get"} /\ temp[b] \in TEMP_FILES
    /\ temp[a] # temp[b] /\ disk[temp[a]] = "empty" /\ disk[temp[b]] = "empty"

\* ------------------------------------------------------------------ C22
\* the request's persistence has made its copy
C22_Persisted(r) == stask[r].state = "done" /\ stask[r].ret # None

\* C22: two distinct requests that both persist their output never write
\* the same durable path, so the copy one request has made is never
\* overwritten by another's, also for the same voice and format within the
\* same second.
C22_DurablePathsNeverShared ==
  /\ \A a, b \in Reqs :
       (a # b /\ C22_Persisted(a) /\ C22_Persisted(b)) => stask[a].ret # stask[b].ret
  /\ \A r \in Reqs :
       C22_Persisted(r) => \E f \in outdir : f.name = stask[r].ret /\ f.owner = r

====
